---- MODULE Spec2Model ----
(***************************************************************************)
(* A model of sabren/symreg's metagrammar front end (src/meta.py):         *)
(* MetaScanner, MetaParser, GrammarWalker, the python_grammar cache,       *)
(* Emitter and EBNFEmitter.                                                *)
(*                                                                         *)
(* A text is a sequence of one-character strings.  Positions are 0-based   *)
(* as in Python: the character at position p is text[p+1].  A Python list  *)
(* inside the AST is the record List(items), so that a list and a          *)
(* namedtuple node can be told apart the way type(node) tells them apart.  *)
(***************************************************************************)
EXTENDS Integers, Sequences, FiniteSets, TLC

VARIABLES
    entry,      \* which entry point of the repository this run exercises
    text,       \* MetaScanner.tokens: the text being scanned
    pos,        \* MetaScanner.tokens: local pos
    toks,       \* MetaScanner.tokens: the Tokens yielded so far
    lexerr,     \* MetaScanner.tokens: the exception that ended the generator
    src,        \* the grammar text handed to parse()
    pc,         \* position of the parse / emit / re-parse pipeline
    ast,        \* parse(src)
    out,        \* what emit(ast) wrote
    ast2,       \* parse(out)
    wnode,      \* GrammarWalker.walk: the root node
    visitor,    \* GrammarWalker.visitor
    walked,     \* GrammarWalker(visitor).walk(wnode) has run
    wres,       \* the outcome of GrammarWalker(visitor).walk(wnode)
    em,         \* an Emitter: level, sink, exception
    calls,      \* the Emitter.emit calls made so far
    grammarFile,\* the content of the file 'Grammar'
    cache       \* python_grammar: the global _pygrammar, how many times parse
                \* was called, what each call returned, and whether an
                \* exception left a call

vars == <<entry, text, pos, toks, lexerr, src, pc, ast, out, ast2, wnode, visitor,
          walked, wres, em, calls, grammarFile, cache>>

lexVars   == <<text, pos, toks, lexerr>>
parseVars == <<src, pc, ast, out, ast2>>
walkVars  == <<wnode, visitor, walked, wres>>
emitVars  == <<em, calls>>
cacheVars == <<grammarFile, cache>>

----------------------------------------------------------------------------
(* Bounds *)

MaxChars == 4       \* longest text given to the scanner alone
MaxBody == 4        \* most lexemes in a rule body given to the parser
MaxCalls == 4       \* most Emitter.emit calls in a run
MaxRequests == 3    \* most python_grammar() requests in a run

----------------------------------------------------------------------------
(* Characters and the lexer's character classes *)

Min(S) == CHOOSE x \in S : \A y \in S : x <= y

Upper == {"A","B","C","D","E","F","G","H","I","J","K","L","M",
          "N","O","P","Q","R","S","T","U","V","W","X","Y","Z"}
Lower == {"a","b","c","d","e","f","g","h","i","j","k","l","m",
          "n","o","p","q","r","s","t","u","v","w","x","y","z","_"}
Space == {" ", "\t", "\n", "\r", "\f"}

Token(kind, txt) == [kind |-> kind, text |-> txt]

\* the end of the longest run of characters of S that starts at p
RunEnd(t, p, S) ==
    Min({j \in p..Len(t) : j = Len(t) \/ t[j+1] \notin S})

\* a single-character alternative of the lexer
Single(c) ==
    CASE c = ":" -> "COLON"
      [] c = "(" -> "LPAREN"
      [] c = ")" -> "RPAREN"
      [] c = "[" -> "LBRACK"
      [] c = "]" -> "RBRACK"
      [] c = "+" -> "PLUS"
      [] c = "*" -> "STAR"
      [] c = "|" -> "PIPE"
      [] OTHER   -> "NONE"

\* SPACE is \s+ : the run of whitespace it matches may hold line ends
SpaceEnd(t, p) == RunEnd(t, p, Space)

\* the alternatives of the lexer, in order, tried on the character c at p
MatchChar(t, p, c) ==
    IF c = "\n" THEN [kind |-> "NEWLINE", end |-> p+1]
    ELSE IF c \in Space THEN [kind |-> "SPACE", end |-> SpaceEnd(t, p)]
    ELSE IF c = "#"
         THEN [kind |-> "COMMENT",
               end |-> Min({j \in (p+1)..Len(t) : j = Len(t) \/ t[j+1] = "\n"})]
    ELSE IF c \in Upper THEN [kind |-> "SPECIAL", end |-> RunEnd(t, p, Upper)]
    ELSE IF c \in Lower THEN [kind |-> "RULENAME", end |-> RunEnd(t, p, Lower)]
    ELSE IF c = "'" /\ \E j \in (p+1)..(Len(t)-1) : t[j+1] = "'"
         THEN [kind |-> "STRING",
               end |-> Min({j \in (p+1)..(Len(t)-1) : t[j+1] = "'"}) + 1]
    ELSE IF Single(c) # "NONE" THEN [kind |-> Single(c), end |-> p+1]
    ELSE [kind |-> "NONE", end |-> p]

\* lexer.match(text, pos): the first alternative that matches at p, as
\* [kind, end]; kind "NONE" is the None that re.match returns
Match(t, p) == MatchChar(t, p, t[p+1])

\* what  m = lexer.match(text, pos); pos = m.end()  raises when m is None
NoMatchError(p) == [type |-> "AttributeError", offset |-> -1]

NoError == [type |-> "none", offset |-> -1]

\* what the loop of MetaScanner.tokens does with the match m found at p
Yield(t, p, m) ==
    IF m.kind = "NONE"
    THEN [pos |-> p, yield |-> <<>>, err |-> NoMatchError(p)]
    ELSE [pos |-> m.end,
          yield |-> <<Token(m.kind, SubSeq(t, p+1, m.end))>>,
          err |-> NoError]

\* one iteration of the while loop of MetaScanner.tokens
ScanStep(t, p) == Yield(t, p, Match(t, p))

RECURSIVE ScanFrom(_, _, _)
\* the loop after an iteration that left s
ScanOn(t, acc, s) ==
    IF s.err.type # "none" THEN [toks |-> acc, err |-> s.err]
    ELSE ScanFrom(t, s.pos, acc \o s.yield)

ScanFrom(t, p, acc) ==
    IF p >= Len(t) THEN [toks |-> acc, err |-> NoError]
    ELSE ScanOn(t, acc, ScanStep(t, p))

\* MetaScanner.tokens(text), run to its end: the tokens it yields and the
\* exception, if any, that it raises after them
tokens(t) == ScanFrom(t, 0, <<>>)

----------------------------------------------------------------------------
(* AST nodes: the namedtuples of meta.py, and Python lists *)

List(items) == [kind |-> "list", items |-> items]
Tok(t) == [kind |-> "Tok", text |-> t]
Lit(t) == [kind |-> "Lit", text |-> t]
Ref(t) == [kind |-> "Ref", text |-> t]
Seq_(a) == [kind |-> "Seq", args |-> a]
Alt(a) == [kind |-> "Alt", args |-> a]
Rep(a) == [kind |-> "Rep", args |-> a]
Opt(a) == [kind |-> "Opt", args |-> a]
Orp(a) == [kind |-> "Orp", args |-> a]
Def(n, a) == [kind |-> "Def", name |-> n, args |-> a]
Grammar(r) == [kind |-> "Grammar", rules |-> r]

None == [kind |-> "None"]
Raised(type) == [kind |-> "Error", type |-> type]

\* every node and list of a tree
RECURSIVE Subnodes(_)
Subnodes(n) ==
    {n} \cup
    CASE n.kind \in {"Tok", "Lit", "Ref", "None", "Error"} -> {}
      [] n.kind = "list" -> UNION {Subnodes(n.items[i]) : i \in 1..Len(n.items)}
      [] n.kind = "Grammar" -> Subnodes(n.rules)
      [] OTHER -> Subnodes(n.args)

----------------------------------------------------------------------------
(* MetaParser.  A parser state p is [token, n, here, stack, err]: the      *)
(* current token, how many tokens were pulled from self.tokens, the list   *)
(* nodes are inserted in, the stack of such lists, and the exception that  *)
(* is propagating ("none" when there is none).                             *)

\* set_text: self.tokens, the scanner's tokens without SPACE and COMMENT,
\* then EOF.  The chain is lazy, so a scanner exception is raised only when
\* the parser pulls past the last token scanned before it.
Filtered(scan) ==
    [toks |-> SelectSeq(scan.toks, LAMBDA k : k.kind \notin {"SPACE", "COMMENT"}),
     err |-> scan.err]

set_text(t) == Filtered(tokens(t))

NewParser == [token |-> Token("START", <<>>), n |-> 0,
              here |-> <<>>, stack |-> <<>>, err |-> "none"]

raise(p, type) == [p EXCEPT !.err = type]

advance(s, p) ==
    IF p.err # "none" THEN p
    ELSE IF p.n < Len(s.toks)
         THEN [p EXCEPT !.token = s.toks[p.n + 1], !.n = p.n + 1]
    ELSE IF s.err.type # "none" THEN raise(p, s.err.type)
    ELSE IF p.n = Len(s.toks)
         THEN [p EXCEPT !.token = Token("EOF", <<>>), !.n = p.n + 1]
    ELSE raise(p, "StopIteration")

\* expect: the state after it, and the token it returns
expect(s, p, token_kind) ==
    IF p.err # "none" THEN [p |-> p, result |-> p.token]
    ELSE IF p.token.kind = token_kind
         THEN [p |-> advance(s, p), result |-> p.token]
    ELSE [p |-> raise(p, "SyntaxError"), result |-> p.token]

RECURSIVE skip_any(_, _, _)
skip_any(s, p, token_kind) ==
    IF p.err = "none" /\ p.token.kind = token_kind
    THEN skip_any(s, advance(s, p), token_kind)
    ELSE p

descend(p, new_context) ==
    [p EXCEPT !.stack = Append(p.stack, p.here), !.here = new_context]

ascend(p) ==
    [p EXCEPT !.here = p.stack[Len(p.stack)],
              !.stack = SubSeq(p.stack, 1, Len(p.stack) - 1)]

emit(p, node) ==
    IF p.err # "none" THEN p ELSE [p EXCEPT !.here = Append(p.here, node)]

\* a wrap_last_as that lets a postfix operator with nothing before it pass
wrap_last_as_Lenient(p, wrapper) ==
    IF p.err # "none" \/ Len(p.here) = 0 THEN p
    ELSE [p EXCEPT !.here = Append(SubSeq(p.here, 1, Len(p.here) - 1),
                                   [kind |-> wrapper, args |-> p.here[Len(p.here)]])]

wrap_last_as(p, wrapper) ==
    IF p.err # "none" THEN p
    ELSE IF Len(p.here) = 0 THEN raise(p, "AssertionError")
    ELSE [p EXCEPT !.here = Append(SubSeq(p.here, 1, Len(p.here) - 1),
                                   [kind |-> wrapper, args |-> p.here[Len(p.here)]])]

\* a return statement that does not collapse a single alternative
PatternResult_AlwaysAlt(alts) == Alt(List(alts))

\* the return statement of read_pattern: alts is a Python list of lists
PatternResult(alts) ==
    IF Len(alts) = 1 THEN Seq_(alts[1]) ELSE Alt(List(alts))

RECURSIVE read_pattern(_, _, _)
RECURSIVE PatternLoop(_, _, _, _)

\* self.emit(self.read_pattern('RPAREN')), r being what read_pattern left
EmitGroup(r, alts) == [p |-> emit(r.p, r.result), alts |-> alts]

\* self.emit(Opt(self.read_pattern('RBRACK')))
EmitOptional(r, alts) == [p |-> emit(r.p, Opt(r.result)), alts |-> alts]

\* one pass through the if/elif chain of read_pattern's loop, without the
\* closing advance: the parser state and alts after it
PatternItem(s, p, alts) ==
    CASE p.token.kind = "NEWLINE" -> [p |-> p, alts |-> alts]
      [] p.token.kind = "PIPE" ->
            [p |-> descend(ascend(p), <<>>), alts |-> Append(alts, List(p.here))]
      [] p.token.kind = "SPECIAL" ->
            [p |-> emit(p, Tok(p.token.text)), alts |-> alts]
      [] p.token.kind = "RULENAME" ->
            [p |-> emit(p, Ref(p.token.text)), alts |-> alts]
      [] p.token.kind = "LPAREN" ->
            EmitGroup(read_pattern(s, advance(s, p), "RPAREN"), alts)
      [] p.token.kind = "LBRACK" ->
            EmitOptional(read_pattern(s, advance(s, p), "RBRACK"), alts)
      [] p.token.kind = "STAR" -> [p |-> wrap_last_as(p, "Orp"), alts |-> alts]
      [] p.token.kind = "PLUS" -> [p |-> wrap_last_as(p, "Rep"), alts |-> alts]
      [] p.token.kind = "STRING" ->
            [p |-> emit(p, Lit(SubSeq(p.token.text, 2, Len(p.token.text) - 1))),
             alts |-> alts]
      \* SyntaxError(msg, token) is given a 2-tuple where it wants a
      \* 4-tuple, so building the exception raises TypeError
      [] OTHER -> [p |-> raise(p, "TypeError"), alts |-> alts]

\* the end of a pass: self.advance(), and the loop again
NextItem(s, it, end_kind) == PatternLoop(s, advance(s, it.p), it.alts, end_kind)

\* the while loop of read_pattern; the current alt is p.here
PatternLoop(s, p, alts, end_kind) ==
    IF p.err # "none" THEN [p |-> p, result |-> None]
    ELSE IF p.token.kind = end_kind
         THEN [p |-> p, result |-> PatternResult(Append(alts, List(p.here)))]
    ELSE NextItem(s, PatternItem(s, p, alts), end_kind)

\* the exit of  with self.context() : ascend, unless an exception passes
LeaveContext(r) ==
    IF r.p.err # "none" THEN r ELSE [p |-> ascend(r.p), result |-> r.result]

read_pattern(s, p, end_kind) ==
    IF p.err # "none" THEN [p |-> p, result |-> None]
    ELSE LeaveContext(PatternLoop(s, descend(p, <<>>), <<>>, end_kind))

\* a read_def that returns the pattern itself as the Def's args
DefResult_Bare(name, pattern) == Def(name, pattern)

\* Def(name, rule), rule being the context list that holds the pattern
DefResult(name, pattern) == Def(name, List(<<pattern>>))

\* read_def after its pattern was read: rule.append(...), return Def(...)
ReturnDef(name, r) ==
    IF r.p.err # "none" THEN [p |-> r.p, result |-> None]
    ELSE [p |-> ascend(r.p), result |-> DefResult(name, r.result)]

\* read_def after self.expect('COLON')
ReadRule(s, name, colon) ==
    IF colon.p.err # "none" THEN [p |-> colon.p, result |-> None]
    ELSE ReturnDef(name, read_pattern(s, descend(colon.p, <<>>), "NEWLINE"))

\* read_def after self.expect('RULENAME')
ReadColon(s, name) == ReadRule(s, name.result.text, expect(s, name.p, "COLON"))

read_def(s, p) == ReadColon(s, expect(s, p, "RULENAME"))

RECURSIVE DefsLoop(_, _)

\* defs.append(self.read_def()), and the loop again
AppendDef(s, r) == DefsLoop(s, emit(r.p, r.result))

\* the body of parse's loop after skip_any('NEWLINE')
DefsStep(s, q) ==
    IF q.err # "none" \/ q.token.kind = "EOF" THEN DefsLoop(s, q)
    ELSE AppendDef(s, read_def(s, q))

\* the while loop of MetaParser.parse; defs is p.here
DefsLoop(s, p) ==
    IF p.err # "none" \/ p.token.kind = "EOF" THEN p
    ELSE DefsStep(s, skip_any(s, p, "NEWLINE"))

\* return Grammar(defs), unless an exception left parse
ReturnGrammar(p) ==
    IF p.err # "none" THEN Raised(p.err) ELSE Grammar(List(p.here))

\* MetaParser.parse on the token stream s
MetaParser_parse(s) ==
    ReturnGrammar(DefsLoop(s, descend(expect(s, NewParser, "START").p, <<>>)))

\* meta.parse(text): a Grammar, or the exception that left it
parse(t) == MetaParser_parse(set_text(t))

----------------------------------------------------------------------------
(* Emitter.  An emitter state e is [level, sink, err]; sink is every       *)
(* character emitFn was given, in order.  The argument of emit is          *)
(* Text(s), INDENT or DEDENT.                                              *)

Text(s) == [tag |-> "text", s |-> s]
INDENT == [tag |-> "INDENT", s |-> <<>>]
DEDENT == [tag |-> "DEDENT", s |-> <<>>]

NewEmitter == [level |-> 0, sink |-> <<>>, err |-> "none"]

indent_str == <<" ", " ", " ", " ">>

\* Python's  s * n : the empty string when n <= 0
RECURSIVE Times(_, _)
Times(s, n) == IF n <= 0 THEN <<>> ELSE s \o Times(s, n - 1)

emitFn(e, s) == IF e.err # "none" THEN e ELSE [e EXCEPT !.sink = e.sink \o s]

indent(e) == IF e.err # "none" THEN e ELSE [e EXCEPT !.level = e.level + 1]

\* a dedent without its assertion
dedent_Unchecked(e) ==
    IF e.err # "none" THEN e ELSE [e EXCEPT !.level = e.level - 1]

\* the level is decremented before the assertion is tested
dedent(e) ==
    IF e.err # "none" THEN e
    ELSE IF e.level - 1 >= 0 THEN [e EXCEPT !.level = e.level - 1]
    ELSE [e EXCEPT !.level = e.level - 1, !.err = "AssertionError"]

newline(e) == emitFn(e, <<"\n">> \o Times(indent_str, e.level))

Emitter_emit(e, x) ==
    IF x.tag = "text" /\ x.s = <<"\n">> THEN newline(e)
    ELSE IF x.tag = "INDENT" THEN newline(indent(e))
    ELSE IF x.tag = "DEDENT" THEN newline(dedent(e))
    ELSE emitFn(e, x.s)

----------------------------------------------------------------------------
(* GrammarWalker.  A visitor gives, for each prefix and node kind, whether *)
(* it has the method prefix+kind and the method's code, a sequence of      *)
(* instructions [op, s]:                                                   *)
(*   "emit" s       self.emit(s)                                           *)
(*   "emitText"     self.emit(node.text)                                   *)
(*   "emitName"     self.emit(node.name)                                   *)
(*   "walkArgs"     walk(node.args)                                        *)
(*   "walkRules"    walk(node.rules)                                       *)
(*   "betweenArgs"  self.between(walk, node.args, s)                       *)
(*   "betweenSelf"  self.between(walk, node, s)                            *)
(* A walk state w is [em, trace, err]: the visitor's emitter state, the    *)
(* methods of the visitor called so far as [hook, kind, path], and the     *)
(* propagating exception.  A path addresses a node below the root: 0 is    *)
(* the field args (or rules), i >= 1 is item i of a list.                  *)

Kinds == {"Grammar", "Def", "Seq", "Alt", "Rep", "Opt", "Orp",
          "Tok", "Lit", "Ref", "list"}

Absent == [present |-> FALSE, code |-> <<>>]
Method(code) == [present |-> TRUE, code |-> code]
I(op, s) == [op |-> op, s |-> s]

NewWalk == [em |-> NewEmitter, trace |-> <<>>, err |-> "none"]

Event(hook, node, path) == [hook |-> hook, kind |-> node.kind, path |-> path]

\* getattr(self.visitor, prefix+kind, None)
method(v, prefix, node) == v[prefix][node.kind]

\* the elements of a Python list, each with its path
Elements(list, path) ==
    [i \in 1..Len(list.items) |->
        [node |-> list.items[i], path |-> path \o <<i>>]]

\* children(node): the list it returns, each child with its path, or the
\* exception it raises.  Def has no field 'rule'.
children(node, path) ==
    LET k == node.kind
    IN  CASE k = "Def" -> [err |-> "AttributeError", items |-> <<>>]
          [] k = "Grammar" ->
                [err |-> "none", items |-> Elements(node.rules, path \o <<0>>)]
          [] k \in {"Seq", "Alt", "Rep", "Opt", "Orp"} ->
                [err |-> "none",
                 items |-> <<[node |-> node.args, path |-> path \o <<0>>]>>]
          [] k \in {"Tok", "Lit", "Ref"} -> [err |-> "none", items |-> <<>>]
          [] k = "list" ->
                [err |-> "none", items |-> Elements(node, path)]
          [] OTHER -> [err |-> "Exception", items |-> <<>>]

WEmit(w, x) ==
    IF w.err # "none" THEN w
    ELSE LET e == Emitter_emit(w.em, x)
         IN  [w EXCEPT !.em = e, !.err = e.err]

RECURSIVE walk(_, _, _, _)
RECURSIVE WalkEach(_, _, _)
RECURSIVE BetweenRest(_, _, _, _)
RECURSIVE Run(_, _, _, _, _)

\* for child in items: walk(child)
WalkEach(v, items, w) ==
    IF w.err # "none" \/ items = <<>> THEN w
    ELSE WalkEach(v, Tail(items), walk(v, items[1].node, items[1].path, w))

\* Emitter.between(walk, nodes, sep), nodes given with their paths
BetweenRest(v, items, sep, w) ==
    IF w.err # "none" \/ items = <<>> THEN w
    ELSE BetweenRest(v, Tail(items), sep,
                     walk(v, items[1].node, items[1].path, WEmit(w, Text(sep))))

between(v, items, sep, w) ==
    IF w.err # "none" \/ items = <<>> THEN w
    ELSE BetweenRest(v, Tail(items), sep,
                     walk(v, items[1].node, items[1].path, w))

\* the body of a visitor method, run on node
Run(v, code, node, path, w) ==
    IF w.err # "none" \/ code = <<>> THEN w
    ELSE LET c == code[1]
             w1 == CASE c.op = "emit" -> WEmit(w, Text(c.s))
                     [] c.op = "emitText" -> WEmit(w, Text(node.text))
                     [] c.op = "emitName" -> WEmit(w, Text(node.name))
                     [] c.op = "walkArgs" -> walk(v, node.args, path \o <<0>>, w)
                     [] c.op = "walkRules" -> walk(v, node.rules, path \o <<0>>, w)
                     [] c.op = "betweenArgs" ->
                           between(v, Elements(node.args, path \o <<0>>), c.s, w)
                     [] c.op = "betweenSelf" ->
                           between(v, Elements(node, path), c.s, w)
         IN  Run(v, Tail(code), node, path, w1)

\* dispatch(prefix, node): call the method if the visitor has it
dispatch(v, prefix, node, path, w) ==
    IF w.err # "none" THEN w
    ELSE LET meth == method(v, prefix, node)
         IN  IF meth.present
             THEN Run(v, meth.code, node, path,
                      [w EXCEPT !.trace = Append(w.trace, Event(prefix, node, path))])
             ELSE w

\* walk's automatic mode: enter, the children, leave
AutoWalk(v, node, path, w) ==
    LET entered == dispatch(v, "enter", node, path, w)
        ch == children(node, path)
    IN  IF entered.err # "none" THEN entered
        ELSE IF ch.err # "none" THEN [entered EXCEPT !.err = ch.err]
        ELSE dispatch(v, "leave", node, path, WalkEach(v, ch.items, entered))

\* a walk that calls the enter hook before it looks for an override
walk_EnterFirst(v, node, path, w) ==
    IF w.err # "none" THEN w
    ELSE LET custom == method(v, "walk", node)
             entered == dispatch(v, "enter", node, path, w)
         IN  IF custom.present
             THEN Run(v, custom.code, node, path,
                      [entered EXCEPT !.trace =
                           Append(entered.trace, Event("walk", node, path))])
             ELSE AutoWalk(v, node, path, w)

walk(v, node, path, w) ==
    IF w.err # "none" THEN w
    ELSE LET custom == method(v, "walk", node)
         IN  IF custom.present
             THEN Run(v, custom.code, node, path,
                      [w EXCEPT !.trace = Append(w.trace, Event("walk", node, path))])
             ELSE AutoWalk(v, node, path, w)

\* GrammarWalker(v).walk(node)
GrammarWalker(v, node) == walk(v, node, <<>>, NewWalk)

----------------------------------------------------------------------------
(* EBNFEmitter *)

Chars(str) ==
    CASE str = ": " -> <<":", " ">>
      [] str = " | " -> <<" ", "|", " ">>
      [] str = ")*" -> <<")", "*">>
      [] OTHER -> <<str>>

EBNFEmitter ==
    [walk |-> [k \in Kinds |->
        CASE k = "Def" -> Method(<<I("emitName", <<>>), I("emit", Chars(": ")),
                                   I("walkArgs", <<>>), I("emit", Chars("\n"))>>)
          [] k = "Seq" -> Method(<<I("betweenArgs", Chars(" "))>>)
          [] k = "list" -> Method(<<I("betweenSelf", Chars(" "))>>)
          [] k = "Alt" -> Method(<<I("emit", Chars("(")),
                                   I("betweenArgs", Chars(" | ")),
                                   I("emit", Chars(")"))>>)
          [] k = "Opt" -> Method(<<I("emit", Chars("[")), I("walkArgs", <<>>),
                                   I("emit", Chars("]"))>>)
          [] k = "Orp" -> Method(<<I("emit", Chars("(")), I("walkArgs", <<>>),
                                   I("emit", Chars(")*"))>>)
          [] OTHER -> Absent],
     enter |-> [k \in Kinds |->
        CASE k = "Tok" -> Method(<<I("emitText", <<>>)>>)
          [] k = "Lit" -> Method(<<I("emit", Chars("'")), I("emitText", <<>>),
                                   I("emit", Chars("'"))>>)
          [] k = "Ref" -> Method(<<I("emitText", <<>>)>>)
          [] OTHER -> Absent],
     leave |-> [k \in Kinds |-> Absent]]

\* meta.emit(node): the walk of node by a fresh EBNFEmitter
ebnf(node) == GrammarWalker(EBNFEmitter, node)

----------------------------------------------------------------------------
(* The scanner as a process: one action per token *)

LexAlphabet == {"a", "B", " ", "\n", "#", "'", "?", ":"}

LexTexts == UNION {[1..n -> LexAlphabet] : n \in 0..MaxChars}


InitLex ==
    /\ text \in LexTexts
    /\ pos = 0
    /\ toks = <<>>
    /\ lexerr = NoError

IdleLex == text = <<>> /\ pos = 0 /\ toks = <<>> /\ lexerr = NoError

\* one iteration of the loop of MetaScanner.tokens
LexStep ==
    /\ entry = "scanner"
    /\ lexerr.type = "none"
    /\ pos < Len(text)
    /\ LET s == ScanStep(text, pos)
       IN  /\ pos' = s.pos
           /\ toks' = toks \o s.yield
           /\ lexerr' = s.err
    /\ UNCHANGED <<entry, text>>
    /\ UNCHANGED <<parseVars, walkVars, emitVars, cacheVars>>

----------------------------------------------------------------------------
(* parse, emit, parse again: the self-check of meta.py's __main__ *)

Lexemes == {<<"a">>, <<"B">>, <<"'", "c", "'">>, <<"(">>, <<")">>,
            <<"[">>, <<"]">>, <<"*">>, <<"+">>, <<"|">>}

RECURSIVE Flatten(_)
Flatten(ss) == IF ss = <<>> THEN <<>> ELSE ss[1] \o Flatten(Tail(ss))

Bodies == UNION {[1..n -> Lexemes] : n \in 0..MaxBody}

\* what follows the body: a line end, nothing, or a line end and a second rule
RuleEnds == {<<"\n">>, <<>>, <<"\n", "s", ":", "B", "\n">>}

\* texts that hold no rule
BlankTexts == {<<>>, <<"\n">>, <<"#", "a", "\n">>}

\* a rule named r with the body, then one of RuleEnds
GrammarTexts ==
    {<<"r", ":">> \o Flatten(b) \o e : b \in Bodies, e \in RuleEnds}
        \cup BlankTexts

IdleParse ==
    /\ src = <<>> /\ pc = "idle" /\ ast = None /\ out = <<>> /\ ast2 = None

InitParse ==
    /\ src \in GrammarTexts
    /\ pc = "start"
    /\ ast = None
    /\ out = <<>>
    /\ ast2 = None

\* rule = parse(rule_txt)
DoParse ==
    /\ entry = "main"
    /\ pc = "start"
    /\ ast' = parse(src)
    /\ pc' = IF ast'.kind = "Error" THEN "failed" ELSE "parsed"
    /\ UNCHANGED <<entry, src, out, ast2>>
    /\ UNCHANGED <<lexVars, walkVars, emitVars, cacheVars>>

\* emit(rule)
DoEmit ==
    /\ entry = "main"
    /\ pc = "parsed"
    /\ LET w == ebnf(ast)
       IN  /\ out' = w.em.sink
           /\ pc' = IF w.err # "none" THEN "failed" ELSE "emitted"
    /\ UNCHANGED <<entry, src, ast, ast2>>
    /\ UNCHANGED <<lexVars, walkVars, emitVars, cacheVars>>

\* parse(the emitted text)
DoReparse ==
    /\ entry = "main"
    /\ pc = "emitted"
    /\ ast2' = parse(out)
    /\ pc' = "reparsed"
    /\ UNCHANGED <<entry, src, ast, out>>
    /\ UNCHANGED <<lexVars, walkVars, emitVars, cacheVars>>


----------------------------------------------------------------------------
(* GrammarWalker(visitor).walk(node), for the nodes the parser builds *)

WalkTexts ==
    {<<"r", ":", "a", "\n">>,
     <<"r", ":", "a", "|", "B", "\n">>,
     <<"r", ":", "[", "a", "]", "'", "c", "'", "*", "\n">>,
     <<"r", ":", "(", "a", "|", "B", ")", "+", "\n", "s", ":", "\n">>,
     <<>>}

WalkRoots == UNION {Subnodes(parse(t)) : t \in WalkTexts}

\* what an override does to go on below its node, when it does
Descend(k) ==
    CASE k = "Grammar" -> <<I("walkRules", <<>>)>>
      [] k = "list" -> <<I("betweenSelf", <<>>)>>
      [] k \in {"Tok", "Lit", "Ref"} -> <<>>
      [] OTHER -> <<I("walkArgs", <<>>)>>

\* a visitor with overrides for the kinds W, enter hooks for E and leave
\* hooks for L; the hooks do nothing, and the overrides either do nothing
\* or only call the continuation
MakeVisitor(W, E, L, descends) ==
    [walk |-> [k \in Kinds |->
                  IF k \in W THEN Method(IF descends THEN Descend(k) ELSE <<>>)
                  ELSE Absent],
     enter |-> [k \in Kinds |-> IF k \in E THEN Method(<<>>) ELSE Absent],
     leave |-> [k \in Kinds |-> IF k \in L THEN Method(<<>>) ELSE Absent]]

OverrideSets == {{}, Kinds} \cup {{k} : k \in Kinds}
HookSets == {{}, Kinds}

Visitors ==
    {EBNFEmitter} \cup
    {MakeVisitor(W, E, L, d) :
        W \in OverrideSets, E \in HookSets, L \in HookSets, d \in BOOLEAN}

InitWalk ==
    /\ wnode \in WalkRoots
    /\ visitor \in Visitors
    /\ walked = FALSE
    /\ wres = NewWalk

\* GrammarWalker(visitor).walk(wnode)
DoWalk ==
    /\ entry = "walker"
    /\ ~walked
    /\ walked' = TRUE
    /\ wres' = GrammarWalker(visitor, wnode)
    /\ UNCHANGED <<entry, wnode, visitor>>
    /\ UNCHANGED <<lexVars, parseVars, emitVars, cacheVars>>

----------------------------------------------------------------------------
(* A backend's calls of Emitter.emit; an exception ends the run *)

EmitInputs ==
    {Text(<<"\n">>), INDENT, DEDENT, Text(<<"a">>), Text(<<"a", "\n", "b">>)}

InitEmit == em = NewEmitter /\ calls = <<>>

\* self.emit(x); the call is logged with what it wrote and how it left
EmitCall(x) ==
    /\ entry = "emitter"
    /\ em.err = "none"
    /\ Len(calls) < MaxCalls
    /\ em' = Emitter_emit(em, x)
    /\ calls' = Append(calls,
                   [x |-> x,
                    wrote |-> SubSeq(em'.sink, Len(em.sink) + 1, Len(em'.sink)),
                    level |-> em'.level,
                    err |-> em'.err])
    /\ UNCHANGED <<entry, lexVars, parseVars, walkVars, cacheVars>>

----------------------------------------------------------------------------
(* python_grammar(), called by walk_python and gencpp; none of its callers *)
(* catches, so an exception ends the run                                   *)

\* bool(x): None is false; a namedtuple is true when it has a field
Truthy_RulesNonEmpty(v) == v.kind = "Grammar" /\ Len(v.rules.items) > 0

Truthy(v) == v.kind # "None" /\ DOMAIN v \ {"kind"} # {}

\* the file 'Grammar': no rule, or rules with short bodies
GrammarFiles ==
    {<<"r", ":">> \o Flatten(b) \o e :
        b \in UNION {[1..n -> Lexemes] : n \in 0..2}, e \in RuleEnds}
        \cup BlankTexts

NewCache == [global |-> None, parses |-> 0, returned |-> <<>>, crashed |-> FALSE]

InitCache == grammarFile \in GrammarFiles /\ cache = NewCache

\* _pygrammar = parse(...); return _pygrammar
Store(c, parsed) ==
    IF parsed.kind = "Error"
    THEN [c EXCEPT !.parses = c.parses + 1, !.crashed = TRUE]
    ELSE [c EXCEPT !.parses = c.parses + 1, !.global = parsed,
                   !.returned = Append(c.returned, parsed)]

\* a call of python_grammar(), on the cache state c
python_grammar(c, file) ==
    IF ~Truthy(c.global) THEN Store(c, parse(file))
    ELSE [c EXCEPT !.returned = Append(c.returned, c.global)]

Request ==
    /\ entry = "python_grammar"
    /\ ~cache.crashed
    /\ Len(cache.returned) < MaxRequests
    /\ cache' = python_grammar(cache, grammarFile)
    /\ UNCHANGED <<entry, grammarFile>>
    /\ UNCHANGED <<lexVars, parseVars, walkVars, emitVars>>

----------------------------------------------------------------------------
(* Specifications *)

\* the parts of the state a run does not use
IdleWalk == wnode = None /\ visitor = None /\ walked = FALSE /\ wres = NewWalk
IdleEmit == em = NewEmitter /\ calls = <<>>
IdleCache == grammarFile = <<>> /\ cache = NewCache

Entries == {"scanner", "main", "walker", "emitter", "python_grammar"}

\* the state after construction, for a run from entry point e
InitOf(e) ==
    /\ entry = e
    /\ IF e = "scanner" THEN InitLex ELSE IdleLex
    /\ IF e = "main" THEN InitParse ELSE IdleParse
    /\ IF e = "walker" THEN InitWalk ELSE IdleWalk
    /\ IF e = "emitter" THEN InitEmit ELSE IdleEmit
    /\ IF e = "python_grammar" THEN InitCache ELSE IdleCache

Init == \E e \in Entries : InitOf(e)

Next ==
    \/ LexStep
    \/ DoParse
    \/ DoEmit
    \/ DoReparse
    \/ DoWalk
    \/ \E x \in EmitInputs : EmitCall(x)
    \/ Request

Spec == Init /\ [][Next]_vars

\* the runs from one entry point
InitLexRun == InitOf("scanner")
NextLex == LexStep
SpecLex == InitLexRun /\ [][NextLex]_vars

InitParseRun == InitOf("main")
NextParse == DoParse \/ DoEmit \/ DoReparse
SpecParse == InitParseRun /\ [][NextParse]_vars

InitWalkRun == InitOf("walker")
NextWalk == DoWalk
SpecWalk == InitWalkRun /\ [][NextWalk]_vars

InitEmitRun == InitOf("emitter")
NextEmit == \E x \in EmitInputs : EmitCall(x)
SpecEmit == InitEmitRun /\ [][NextEmit]_vars

InitCacheRun == InitOf("python_grammar")
NextCache == Request
SpecCache == InitCacheRun /\ [][NextCache]_vars

----------------------------------------------------------------------------
(* What a grammar text says, read off its tokens, for the parser's claims *)

Opening == {"LPAREN", "LBRACK"}
Closing == {"RPAREN", "RBRACK"}

RECURSIVE SplitTop(_, _, _, _)
\* ts cut at every token of kind sep outside all brackets; d is the depth
\* and cur the piece being read
SplitTop(ts, sep, d, cur) ==
    IF ts = <<>> THEN <<cur>>
    ELSE LET k == ts[1].kind
         IN  IF k = sep /\ d = 0
             THEN <<cur>> \o SplitTop(Tail(ts), sep, 0, <<>>)
             ELSE SplitTop(Tail(ts), sep,
                           IF k \in Opening THEN d + 1
                           ELSE IF k \in Closing THEN d - 1 ELSE d,
                           Append(cur, ts[1]))

NoNewlines(ts) == SelectSeq(ts, LAMBDA k : k.kind # "NEWLINE")

\* the lines of a text that hold a rule, each without its line ends
RuleLines(t) ==
    LET lines == SplitTop(set_text(t).toks, "NEWLINE", 0, <<>>)
        kept == SelectSeq(lines, LAMBDA l : l # <<>>)
    IN  [i \in 1..Len(kept) |-> NoNewlines(kept[i])]

\* the pattern of a rule line: what follows the name and the colon
Body(line) == SubSeq(line, 3, Len(line))

\* a '*' or '+' that opens a rule's pattern, a group, an optional or an
\* alternative: there is nothing before it to wrap
Dangling(ts) ==
    \E i \in 2..Len(ts) :
        /\ ts[i].kind \in {"STAR", "PLUS"}
        /\ ts[i-1].kind \in {"COLON", "LPAREN", "LBRACK", "PIPE"}

RECURSIVE UnparseElem(_)
RECURSIVE UnparseItems(_)
RECURSIVE UnparseAlts(_)
RECURSIVE UnparsePattern(_)

\* the tokens an AST stands for: each postfix operator right after the
\* element it wraps, each group in parentheses, each optional in brackets
UnparseElem(n) ==
    CASE n.kind = "Tok" -> <<Token("SPECIAL", n.text)>>
      [] n.kind = "Ref" -> <<Token("RULENAME", n.text)>>
      [] n.kind = "Lit" -> <<Token("STRING", <<"'">> \o n.text \o <<"'">>)>>
      [] n.kind \in {"Seq", "Alt"} ->
            <<Token("LPAREN", <<"(">>)>> \o UnparsePattern(n)
                \o <<Token("RPAREN", <<")">>)>>
      [] n.kind = "Opt" ->
            <<Token("LBRACK", <<"[">>)>> \o UnparsePattern(n.args)
                \o <<Token("RBRACK", <<"]">>)>>
      [] n.kind = "Orp" -> UnparseElem(n.args) \o <<Token("STAR", <<"*">>)>>
      [] n.kind = "Rep" -> UnparseElem(n.args) \o <<Token("PLUS", <<"+">>)>>

UnparseItems(items) ==
    IF items = <<>> THEN <<>>
    ELSE UnparseElem(items[1]) \o UnparseItems(Tail(items))

UnparseAlts(alts) ==
    IF Len(alts) = 1 THEN UnparseItems(alts[1].items)
    ELSE UnparseItems(alts[1].items) \o <<Token("PIPE", <<"|">>)>>
             \o UnparseAlts(Tail(alts))

UnparsePattern(n) ==
    IF n.kind = "Seq" THEN UnparseItems(n.args.items)
    ELSE UnparseAlts(n.args.items)

Parsed == pc \in {"parsed", "emitted", "reparsed"}
ParseDone == pc # "start" /\ pc # "idle"

\* rule i of the parsed grammar, and its pattern
Rule(i) == ast.rules.items[i]
PatternOf(d) == d.args.items[1]

----------------------------------------------------------------------------
(* C1 *)

\* C1: round trip.  Whenever a grammar text parses, what the EBNF emitter
\* writes for its AST parses again to an AST equal to the first.
C1_RoundTrip == pc = "reparsed" => ast2 = ast

----------------------------------------------------------------------------
(* C2 *)

\* the alternatives of a rule line: its body cut at the '|' outside brackets
Alternatives(line) == SplitTop(Body(line), "PIPE", 0, <<>>)

----------------------------------------------------------------------------
(* C3 *)

\* C3: a successful parse yields, rule by rule, an AST whose tokens are the
\* text's tokens: every '*' (and '+') stands right after the one element it
\* wraps as Orp (Rep), inside that element's own grouping, and all other
\* elements are as written; a text with a '*' or '+' that has nothing before
\* it in its grouping or alternative is rejected with an exception.
C3_PostfixWrap ==
    /\ Parsed =>
          LET lines == RuleLines(src)
          IN  /\ Len(ast.rules.items) = Len(lines)
              /\ \A i \in 1..Len(lines) :
                    /\ Rule(i).name = lines[i][1].text
                    /\ UnparsePattern(PatternOf(Rule(i))) = Body(lines[i])
    /\ (ParseDone /\ Dangling(NoNewlines(set_text(src).toks))) =>
          ast.kind = "Error"
    /\ (ParseDone /\ ast = Raised("AssertionError")) =>
          Dangling(NoNewlines(set_text(src).toks))

\* a '*' after a second element wraps that element alone
C3_Witness ==
    /\ pc = "parsed"
    /\ Len(ast.rules.items) >= 1
    /\ LET pat == PatternOf(Rule(1))
       IN  /\ pat.kind = "Seq"
           /\ Len(pat.args.items) = 2
           /\ pat.args.items[1].kind = "Seq"
           /\ pat.args.items[2] = Orp(Ref(<<"a">>))

----------------------------------------------------------------------------
(* C4 *)

Greeting ==
    <<"g","r","e","e","t","i","n","g",":"," ","'","h","i","'"," ",
      "N","A","M","E","\n">>

----------------------------------------------------------------------------
(* C5 *)

StrictPrefix(a, b) == Len(a) < Len(b) /\ SubSeq(b, 1, Len(a)) = a

\* the code of an override calls the walk continuation
CallsContinuation(code) ==
    \E i \in DOMAIN code :
        code[i].op \in {"walkArgs", "walkRules", "betweenArgs", "betweenSelf"}

\* C5: for a node whose kind the visitor overrides (walk<Kind>), walk calls
\* the override and nothing else: no enter<Kind> or leave<Kind> is ever
\* called for a kind with an override, the walk of an overridden root is one
\* call of its override, and nodes below an overridden node are visited only
\* after the override is called and only if it calls the continuation.
C5_DispatchPrecedence ==
    walked =>
        LET trace == wres.trace
        IN  /\ \A i \in DOMAIN trace :
                  trace[i].hook \in {"enter", "leave"} =>
                      ~visitor.walk[trace[i].kind].present
            /\ visitor.walk[wnode.kind].present =>
                  /\ trace # <<>>
                  /\ trace[1] = Event("walk", wnode, <<>>)
                  /\ \A i \in DOMAIN trace : i > 1 => trace[i].path # <<>>
            /\ \A i \in DOMAIN trace : \A j \in DOMAIN trace :
                  (trace[i].hook = "walk"
                      /\ StrictPrefix(trace[i].path, trace[j].path)) =>
                      /\ j > i
                      /\ CallsContinuation(visitor.walk[trace[i].kind].code)

\* a node below the root is walked by an override although the visitor
\* also has the enter and leave hooks of its kind
C5_Witness ==
    /\ walked
    /\ \E i \in DOMAIN wres.trace :
          /\ wres.trace[i].hook = "walk"
          /\ wres.trace[i].path # <<>>
          /\ visitor.enter[wres.trace[i].kind].present
          /\ visitor.leave[wres.trace[i].kind].present

----------------------------------------------------------------------------
(* C10 *)

RECURSIVE Traversal(_, _, _)
RECURSIVE TraversalOfEach(_, _)

\* the children of a node in the order the kinds fix: a Def's pattern, a
\* Grammar's rules, the argument of Seq, Alt, Rep, Opt and Orp, a list's
\* elements, none for Tok, Lit and Ref
ChildrenInOrder(n, path) ==
    CASE n.kind = "Grammar" -> Elements(n.rules, path \o <<0>>)
      [] n.kind = "list" -> Elements(n, path)
      [] n.kind \in {"Tok", "Lit", "Ref"} -> <<>>
      [] OTHER -> <<[node |-> n.args, path |-> path \o <<0>>]>>

TraversalOfEach(v, items) ==
    IF items = <<>> THEN <<>>
    ELSE Traversal(v, items[1].node, items[1].path)
             \o TraversalOfEach(v, Tail(items))

\* the calls the automatic traversal makes: enter, the children, leave; an
\* override that does not go on stands for its whole subtree
Traversal(v, n, path) ==
    IF v.walk[n.kind].present THEN <<Event("walk", n, path)>>
    ELSE (IF v.enter[n.kind].present THEN <<Event("enter", n, path)>> ELSE <<>>)
         \o TraversalOfEach(v, ChildrenInOrder(n, path))
         \o (IF v.leave[n.kind].present THEN <<Event("leave", n, path)>> ELSE <<>>)

\* C10: where the visitor has no override, walk calls the enter hook, walks
\* the children in the kind's order and calls the leave hook, and it does so
\* without an exception for every node the parser builds, Def included.
C10_AutoTraversal ==
    (walked /\ \A k \in Kinds : ~CallsContinuation(visitor.walk[k].code)) =>
        /\ wres.err = "none"
        /\ wres.trace = Traversal(visitor, wnode, <<>>)

----------------------------------------------------------------------------
(* C6 *)

Increases(i) == Cardinality({j \in 1..i : calls[j].x = INDENT})
Decreases(i) == Cardinality({j \in 1..i : calls[j].x = DEDENT})

\* no prefix of the first i calls has more decreases than increases
Balanced(i) == \A j \in 1..i : Increases(j) >= Decreases(j)

LineBreak(x) == x \in {Text(<<"\n">>), INDENT, DEDENT}

\* the raising decrease and the balanced calls' levels, common to both
\* readings of C6
C6_Levels ==
    /\ \A i \in DOMAIN calls :
          /\ Balanced(i) =>
                /\ calls[i].err = "none"
                /\ calls[i].level = Increases(i) - Decreases(i)
          /\ (Balanced(i - 1) /\ ~Balanced(i)) =>
                /\ calls[i].err # "none"
                /\ calls[i].wrote = <<>>
    /\ em.sink = Flatten([i \in DOMAIN calls |-> calls[i].wrote])
    /\ em.err # "none" => ~Balanced(Len(calls))

Indentation(n) == Flatten([k \in 1..n |-> <<" ", " ", " ", " ">>])

\* C6: from level 0, the first decrease that would take the level below
\* zero raises, and that call writes nothing; as long as no prefix has more
\* decreases than increases no call raises, the level after each call is
\* #increases - #decreases, and each line break the emitter writes for a
\* line-end, increase or decrease emission is followed by exactly that many
\* indentation units; any other text, line ends inside it included, is
\* written as it is.
C6_IndentationBalance ==
    /\ C6_Levels
    /\ \A i \in DOMAIN calls :
          Balanced(i) =>
              calls[i].wrote =
                  IF LineBreak(calls[i].x)
                  THEN <<"\n">> \o Indentation(calls[i].level)
                  ELSE calls[i].x.s

\* C6 as stated: every line break that reaches the sink, from whatever
\* emission, is followed by as many indentation units as the level.
C6_EveryLineBreakIndented ==
    /\ C6_Levels
    /\ \A i \in DOMAIN calls :
          Balanced(i) =>
              \A j \in DOMAIN calls[i].wrote :
                  calls[i].wrote[j] = "\n" =>
                      /\ j + 4 * calls[i].level <= Len(calls[i].wrote)
                      /\ SubSeq(calls[i].wrote, j + 1, j + 4 * calls[i].level)
                             = Indentation(calls[i].level)

\* an increase, a text of two lines written as it is at level 1, a decrease
\* that passes and a decrease that raises
C6_Witness ==
    /\ Len(calls) = 4
    /\ calls[1].x = INDENT
    /\ calls[2].x = Text(<<"a", "\n", "b">>)
    /\ calls[2].wrote = <<"a", "\n", "b">>
    /\ calls[3].x = DEDENT
    /\ calls[4].x = DEDENT
    /\ em.err = "AssertionError"

----------------------------------------------------------------------------
(* C7 *)

\* C7: when no token pattern matches at a position, tokenising fails with a
\* SyntaxError that carries the offset of that position, after the tokens
\* before that position were produced in order.
C7_LexError ==
    lexerr.type # "none" =>
        /\ lexerr.type = "SyntaxError"
        /\ lexerr.offset = pos
        /\ Flatten([i \in DOMAIN toks |-> toks[i].text]) = SubSeq(text, 1, pos)

----------------------------------------------------------------------------
(* C8 *)

\* C8: over any sequence of python_grammar() requests the grammar text is
\* parsed exactly once, on the first request, and every request returns the
\* one cached Grammar, also when that Grammar has no rule.
C8_LoadOnce ==
    /\ cache.parses <= 1
    /\ (cache.returned # <<>> \/ cache.crashed) => cache.parses = 1
    /\ \A i \in DOMAIN cache.returned :
          /\ cache.returned[i].kind = "Grammar"
          /\ cache.returned[i] = parse(grammarFile)
          /\ cache.returned[i] = cache.global

\* three requests served from a Grammar without rules
C8_Witness ==
    /\ Len(cache.returned) >= 3
    /\ cache.global = Grammar(List(<<>>))
    /\ cache.parses = 1

----------------------------------------------------------------------------
(* C9 *)

\* C9: every line end outside a quoted literal is a NEWLINE token of its
\* own, whatever precedes it; no SPACE or COMMENT token holds a line end.
C9_LineEnds ==
    \A i \in DOMAIN toks :
        (toks[i].kind # "STRING"
            /\ \E j \in DOMAIN toks[i].text : toks[i].text[j] = "\n") =>
            toks[i] = Token("NEWLINE", <<"\n">>)

====
